---- MODULE Spec2Model ----
(***************************************************************************)
(* A model of maigret's probing-and-classification engine:                 *)
(*   core.rs     ScanResult and its builders                               *)
(*   scraper.rs  ScraperStats, IntelligentScraper::check_username_         *)
(*               intelligent, check_with_adaptive_strategy                 *)
(*   main.rs     scan_username (semaphore-gated fan-out of site tasks)     *)
(*   cli.rs      Cli::max_workers                                          *)
(*   downloader.rs  DownloaderRegistry (register, download)                *)
(*                                                                         *)
(* Confidence scores (f32) are modelled in hundredths, with one value      *)
(* standing for NaN whose comparisons are all false.  Strings (URLs,       *)
(* bodies, regexes) are modelled by small vocabularies.                    *)
(***************************************************************************)
EXTENDS Integers, Sequences, FiniteSets, TLC

VARIABLES
    \* ---- one call of check_with_adaptive_strategy (scraper.rs:268-297)
    data,              \* the SiteData of the probed site
    username,          \* the username probed
    use_tor,           \* the use_tor argument
    tor_client,        \* TRUE iff IntelligentScraper.tor_client is Some
    max_retries,       \* the max_retries argument
    retries,           \* local `retries`
    current_strategy,  \* local `current_strategy`
    rpc,               \* position: "attempt", "sleep", "returned"
    attempts,          \* history: one record per attempt made
    delays,            \* history: the delays slept, in ms
    result,            \* the ScanResult of the last attempt
    stats,             \* the scraper's ScraperStats
    \* ---- scan_username's worker pool (main.rs:98-169)
    screenshot,        \* args.screenshot
    permits,           \* free permits of the semaphore
    tpc,               \* per site task: position
    mpc,               \* position of scan_username itself
    next_site,         \* index of the next site to spawn / join
    download,          \* args.download
    tretries,          \* per site task: `retries` of its retried probe
    tresult,           \* per site task: the result of its last attempt
    tpost,             \* per site task: what its post-match actions did
    found_count,       \* the AtomicUsize found_count
    reported,          \* the found count the summary printed, or NotYet
    \* ---- concurrent attempts on one scraper (scraper.rs:187-258)
    shared,            \* the ScraperStats behind the mutex
    lock,              \* owner of the stats mutex, or NoOwner
    apc,               \* per attempt: position
    areg,              \* per attempt: register of a read-modify-write
    plan,              \* per attempt: its site and username, what it met
    \* ---- ScraperStats::update_timing applied in two orders
    records,           \* the timing records: site -> duration
    todoA, todoB,      \* records still to be applied to statsA / statsB
    statsA, statsB,
    \* ---- ScanResult builder sequences (core.rs:109-160)
    sr,                \* the ScanResult under construction
    srSteps,           \* number of builder calls applied to it
    \* ---- one call of check_username_intelligent (scraper.rs:143-265)
    pin,               \* its arguments, the statistics before, what it meets
    pout,              \* what it returned and left behind
    ppc,               \* position: "ready", "returned"
    \* ---- one invocation: the scans of the usernames, the site tasks of
    \*      the current scan counted by position (main.rs:55-170)
    users,             \* number of usernames given
    nsites,            \* number of sites left by filter_sites
    user,              \* index of the username being scanned
    scan,              \* position of scan_username / main
    workers,           \* capacity of the current scan's semaphore
    sem,               \* free permits of the current scan's semaphore
    guard,             \* TRUE iff a MutexGuard of the statistics is alive
    tasks_at,          \* position -> number of site tasks of this scan at it
    stale              \* tasks of earlier scans alive when a scan began

retryVars  == <<data, username, use_tor, tor_client, max_retries, retries,
                current_strategy, rpc, attempts, delays, result, stats>>
poolVars   == <<screenshot, permits, tpc, mpc, next_site, download, tretries,
                tresult, tpost, found_count, reported>>
lockVars   == <<shared, lock, apc, areg, plan>>
timingVars == <<records, todoA, todoB, statsA, statsB>>
resultVars == <<sr, srSteps>>
probeVars  == <<pin, pout, ppc>>
runVars    == <<users, nsites, user, scan, workers, sem, guard, tasks_at,
                stale>>
vars == <<retryVars, poolVars, lockVars, timingVars, resultVars, probeVars,
          runVars>>

\* what the actions of one part of the model leave alone
taskDetail == <<download, tretries, tresult, tpost, found_count, reported>>
notRetry  == <<poolVars, lockVars, timingVars, resultVars, probeVars,
              runVars>>
notPool   == <<retryVars, lockVars, timingVars, resultVars, probeVars,
              runVars>>
notLock   == <<retryVars, poolVars, timingVars, resultVars, probeVars,
              runVars>>
notTiming == <<retryVars, poolVars, lockVars, resultVars, probeVars,
              runVars>>
notResult == <<retryVars, poolVars, lockVars, timingVars, probeVars,
              runVars>>
notProbe  == <<retryVars, poolVars, lockVars, timingVars, resultVars,
              runVars>>
notRun    == <<retryVars, poolVars, lockVars, timingVars, resultVars,
              probeVars>>

----------------------------------------------------------------------------
(* core.rs: ResultStatus, ConfidenceScore, ScanResult                      *)

ResultStatus == {"Confirmed", "Likely", "Private", "NotFound", "Blocked",
                 "Soft404", "Redirected", "Error"}

\* mutant: only Confirmed counts as found
is_found_confirmed_only(status) == status = "Confirmed"

is_found(status) == status \in {"Confirmed", "Likely", "Private"}

\* ConfidenceScore = f32, in hundredths; NaN is the one unordered value,
\* the infinities are below and above every finite value.
NaN == 99999
PosInf == 90000
NegInf == -90000
F32Lt(a, b) == a # NaN /\ b # NaN /\ a < b
F32Gt(a, b) == a # NaN /\ b # NaN /\ a > b
F32Le(a, b) == a # NaN /\ b # NaN /\ a <= b

\* f32::clamp(self, min, max): x = self; if x < min {x = min}; if x > max {x = max}; x
clamp(x, min, max) ==
    LET x1 == IF F32Lt(x, min) THEN min ELSE x
    IN  IF F32Gt(x1, max) THEN max ELSE x1

ScanResultNew(u, site) ==
    [username |-> u, site |-> site, url |-> <<>>, url_probe |-> <<>>,
     link |-> <<>>, exist |-> FALSE, proxied |-> FALSE, error |-> FALSE,
     error_msg |-> <<>>, status |-> "NotFound", confidence |-> 0]

\* mutant: the error flag is not raised
with_error_unflagged(self, msg, status) ==
    [self EXCEPT !.error_msg = msg, !.status = status, !.confidence = 0]

with_error(self, msg, status) ==
    [self EXCEPT !.error = TRUE, !.error_msg = msg, !.status = status,
                 !.confidence = 0]

found(self, url, link, status, confidence) ==
    [self EXCEPT !.exist = TRUE, !.url = url, !.link = link,
                 !.status = status, !.confidence = clamp(confidence, 0, 100)]

not_found(self, url, status, confidence) ==
    [self EXCEPT !.exist = FALSE, !.url = url, !.status = status,
                 !.confidence = clamp(confidence, 0, 100)]

----------------------------------------------------------------------------
(* scraper.rs: strings, site definitions, responses                        *)

\* bounds of the model
MaxElapsed == 2
MaxRetriesBound == 3
MaxBuilderCalls == 2
MaxDuration == 2
NumTimingSites == 3
NumAttempts == 2
NumPoolSites == 9
NumScanSites == 3

Usernames == {"alice", "al1ce"}

\* regexCheck values: none, a valid pattern, a pattern that does not
\* compile, and a pattern whose evaluation hits fancy_regex's backtrack limit
RegexValid    == "^[a-z]+$"
RegexInvalid  == "^[a-z"
RegexRunaway  == "(?=(a+)+$)\\1"
Patterns == {"", RegexValid, RegexInvalid, RegexRunaway}

\* Regex::new(&data.regex_check) is Ok
RegexNewOk(p) == p # RegexInvalid

\* re.is_match(username): "true", "false" or "err"
RegexIsMatch(p, u) ==
    CASE p = RegexValid   -> IF u = "alice" THEN "true" ELSE "false"
      [] p = RegexRunaway -> "err"
      [] OTHER            -> "true"

\* str::replace(from, to) on a template held as a sequence of fragments
Replace(template, from, to) ==
    [i \in DOMAIN template |-> IF template[i] = from THEN to ELSE template[i]]

UrlTemplate   == <<"https://site/", "{}">>
ProbeTemplate == <<"https://api.site/", "{}">>
LoginUrl      == <<"https://site/login">>
\* a template whose URLs have no path: the username is a subdomain
HostTemplate  == <<"https://", "{}", ".site">>

\* Url::to_string (response.url().to_string(), line 239): the serialization
\* of a parsed URL; a URL without a path is written with the path "/"
UrlToString(url) ==
    IF url # <<>> /\ url[1] = "https://" THEN Append(url, "/") ELSE url

ErrorTypes == {"status_code", "message", "response_url", "xpath"}
ErrorMarker == "marker"
\* core.rs:20: a list of markers is loaded as its members joined with "|"
JoinedMarker == "marker|gone"

SiteDatas ==
    [error_type : ErrorTypes, error_msg : {ErrorMarker}, url : {UrlTemplate},
     url_probe : {<<>>, ProbeTemplate}, regex_check : Patterns]

SiteName == "site"

\* str::to_lowercase on the words of the vocabularies
ToLower(w) ==
    CASE w = "Profile"    -> "profile"
      [] w = "Cloudflare" -> "cloudflare"
      [] w = "Instagram"  -> "instagram"
      [] w = "GitHub"     -> "github"
      [] OTHER            -> w

\* what a body can contain: the site's error marker, a "404", keywords
BodyWords == {ErrorMarker, JoinedMarker, "404", "Profile", "followers"}

\* str::contains of a body held as its set of words: the empty pattern is
\* in every string, a word holds itself and its substrings
Contains(body, pat) ==
    \/ pat = ""
    \/ pat \in body
    \/ pat = ErrorMarker /\ JoinedMarker \in body
Unreadable == {"unreadable"}
Bodies == (SUBSET BodyWords) \cup {Unreadable}

Statuses == {200, 204, 404, 429, 500, 503}
Servers == {"nginx", "Cloudflare"}
TransportErrors == {"error sending request"}

\* the responses a probe of site d for username u can receive; a part of
\* the response that the classifier of site d never reads (the body unless
\* the method is message, the final URL unless it is response_url) is held
\* at one value
Responses(d, u) ==
    [status : Statuses, server : Servers, cf_ray : BOOLEAN,
     body : IF d.error_type = "message" THEN Bodies ELSE {{}},
     final_url : IF d.error_type = "response_url"
                 THEN {Replace(d.url, "{}", u), Replace(ProbeTemplate, "{}", u),
                       LoginUrl}
                 ELSE {Replace(d.url, "{}", u)}]

NoResponse ==
    [status |-> 0, server |-> "", cf_ray |-> FALSE, body |-> {},
     final_url |-> <<>>]

\* what one attempt can meet: a transport error, or a response after
\* some elapsed time
Envs(d, u) ==
    {[send |-> e, response |-> NoResponse, elapsed |-> 1] :
         e \in TransportErrors}
    \cup [send : {"ok"}, response : Responses(d, u), elapsed : 1..MaxElapsed]

Strategies == {"Fast", "Stealth", "AntiBlock"}
USER_AGENTS == <<"ua-windows", "ua-mac", "ua-linux">>

----------------------------------------------------------------------------
(* scraper.rs: ScraperStats                                                *)

None == <<>>

ScraperStatsNew ==
    [total_requests |-> 0, blocked_count |-> 0, cloudflare_detected |-> 0,
     fastest_site |-> None, slowest_site |-> None]

\* mutant: the slowest site is looked at only when the fastest is kept
update_timing_else_if(self, site, duration) ==
    IF self.fastest_site = None \/ duration < self.fastest_site[2]
    THEN [self EXCEPT !.fastest_site = <<site, duration>>]
    ELSE IF self.slowest_site = None \/ duration > self.slowest_site[2]
         THEN [self EXCEPT !.slowest_site = <<site, duration>>]
         ELSE self

update_timing(self, site, duration) ==
    LET s1 == IF self.fastest_site = None \/ duration < self.fastest_site[2]
              THEN [self EXCEPT !.fastest_site = <<site, duration>>]
              ELSE self
    IN  IF s1.slowest_site = None \/ duration > s1.slowest_site[2]
        THEN [s1 EXCEPT !.slowest_site = <<site, duration>>]
        ELSE s1

----------------------------------------------------------------------------
(* scraper.rs: IntelligentScraper                                          *)

\* mutant: the cf-ray header is not looked at
detect_cloudflare_server_only(response) ==
    ToLower(response.server) = "cloudflare"

detect_cloudflare(response) ==
    ToLower(response.server) = "cloudflare" \/ response.cf_ray

\* mutant: 503 is not taken for a rate limit
detect_rate_limit_429_only(response) == response.status = 429

detect_rate_limit(response) == response.status \in {429, 503}

\* mutant: only 200 counts as success
is_success_200_only(status) == status = 200

\* StatusCode::is_success (lines 211, 240)
is_success(status) == status >= 200 /\ status <= 299

\* mutant: the keyword heuristic reports a lower confidence
quick_html_check_weak(body) ==
    IF Cardinality({p \in {"profile", "posts", "followers"} :
                       Contains({ToLower(w) : w \in body}, p)}) >= 2
    THEN <<TRUE, 70>> ELSE <<FALSE, 50>>

\* quick_html_check(body): <<exists, confidence>>
quick_html_check(body) ==
    LET body_lower == {ToLower(w) : w \in body}
        positive_count ==
            Cardinality({p \in {"profile", "posts", "followers"} :
                             Contains(body_lower, p)})
    IN  IF \E w \in {"page not found", "404", "user not found"} :
               Contains(body_lower, w)
        THEN <<FALSE, 90>>
        ELSE IF positive_count >= 2 THEN <<TRUE, 85>> ELSE <<FALSE, 50>>

\* mutant: the tor client is used whenever anonymization is requested
select_client_on_request(tor, has_tor_client) ==
    IF tor THEN "tor_client" ELSE "client"

\* mutant: the regex check is skipped
regex_rejects_skipped(d, u) == FALSE

\* the username fails the site's regex: lines 165-173
regex_rejects(d, u) ==
    /\ d.regex_check # ""
    /\ RegexNewOk(d.regex_check)
    /\ RegexIsMatch(d.regex_check, u) = "false"

\* mutant: the error marker is never looked for
has_error_msg_never(d, body) == FALSE

\* line 225: body.contains(&data.error_msg)
has_error_msg(d, body) == Contains(body, d.error_msg)

\* mutant: a failed send is not counted
stats_on_send_error_uncounted(st) == st

\* line 190: the statistics after a send that failed
stats_on_send_error(st) == [st EXCEPT !.total_requests = @ + 1]

\* the client an attempt uses: lines 175-179
select_client(tor, has_tor_client) ==
    IF tor /\ has_tor_client THEN "tor_client" ELSE "client"

\* the detection-method match of lines 209-252:
\* <<"ok", exists, confidence, status>> or <<"err", message>>
classify(d, url, response) ==
    CASE d.error_type = "status_code" ->
           IF is_success(response.status)
           THEN <<"ok", TRUE, 85, "Confirmed">>
           ELSE IF response.status = 404
                THEN <<"ok", FALSE, 90, "NotFound">>
                ELSE <<"ok", FALSE, 60, "NotFound">>
      [] d.error_type = "message" ->
           IF response.body = Unreadable
           THEN <<"err", <<"error decoding response body">>>>
           ELSE IF ~has_error_msg(d, response.body)
                THEN LET h == quick_html_check(response.body)
                     IN  IF h[1] THEN <<"ok", TRUE, h[2], "Confirmed">>
                                 ELSE <<"ok", TRUE, 75, "Likely">>
                ELSE <<"ok", FALSE, 90, "NotFound">>
      [] d.error_type = "response_url" ->
           IF is_success(response.status)
              /\ UrlToString(response.final_url) = url
           THEN <<"ok", TRUE, 90, "Confirmed">>
           ELSE <<"ok", FALSE, 85, "NotFound">>
      [] OTHER ->
           <<"err", <<"Unsupported error type: ", d.error_type>>>>

\* mutant: the probe template is ignored
probe_url_main_only(d, u) == Replace(d.url, "{}", u)

\* lines 155-160: the URL the attempt requests
probe_url(d, u) ==
    IF d.url_probe # <<>> THEN Replace(d.url_probe, "{}", u)
    ELSE Replace(d.url, "{}", u)

\* mutant: the override is attached under every strategy
request_user_agent_always(strategy, draw) == USER_AGENTS[draw]

\* lines 183-185 and 100-103: the User-Agent header attached to the
\* request, "" when none is; draw is the index fastrand::usize returns
request_user_agent(strategy, draw) ==
    IF strategy # "Fast" THEN USER_AGENTS[draw] ELSE ""

\* One call of check_username_intelligent.  env is what the call meets:
\* env.send is "ok" or a transport error, env.response the response
\* received, env.elapsed the measured duration.  The value is the returned
\* ScanResult, the statistics after the call, and whether a request was sent.
check_username_intelligent(st, u, site, d, tor, has_tor_client, strategy, env) ==
    LET r0 == [ScanResultNew(u, site) EXCEPT
                   !.proxied = tor, !.url = d.url, !.url_probe = d.url_probe]
        url == Replace(d.url, "{}", u)
        url_probe == probe_url(d, u)
        client == select_client(tor, has_tor_client)
        st1 == [st EXCEPT !.total_requests = @ + 1]
        st2 == IF detect_cloudflare(env.response)
               THEN [st1 EXCEPT !.cloudflare_detected = @ + 1] ELSE st1
        c == classify(d, url, env.response)
    IN  IF regex_rejects(d, u)
        THEN [result |-> not_found(r0, url, "NotFound", 95), stats |-> st,
              sent |-> FALSE, requested |-> <<>>, client |-> "none"]
        ELSE IF env.send # "ok"
        THEN [result |-> with_error(r0, <<env.send>>, "Error"),
              stats |-> stats_on_send_error(st),
              sent |-> TRUE, requested |-> url_probe, client |-> client]
        ELSE IF detect_rate_limit(env.response)
        THEN [result |-> with_error(r0, <<"Rate limited">>, "Blocked"),
              stats |-> [st2 EXCEPT !.blocked_count = @ + 1],
              sent |-> TRUE, requested |-> url_probe, client |-> client]
        ELSE IF c[1] = "err"
        THEN [result |-> with_error(r0, c[2], "Error"), stats |-> st2,
              sent |-> TRUE, requested |-> url_probe, client |-> client]
        ELSE [result |-> IF c[2] THEN found(r0, url, url, c[4], c[3])
                                 ELSE not_found(r0, url, c[4], c[3]),
              stats |-> update_timing(st2, site, env.elapsed),
              sent |-> TRUE, requested |-> url_probe, client |-> client]

\* the parts of the model a specification does not exercise stay idle
IdleRetryPart ==
    /\ data = [error_type |-> "status_code", error_msg |-> ErrorMarker,
               url |-> UrlTemplate, url_probe |-> <<>>, regex_check |-> ""]
    /\ username = "alice"
    /\ use_tor = FALSE
    /\ tor_client = FALSE
    /\ max_retries = 0
    /\ retries = 0
    /\ current_strategy = "Fast"
    /\ rpc = "idle"
    /\ attempts = <<>>
    /\ delays = <<>>
    /\ result = ScanResultNew("alice", SiteName)
    /\ stats = ScraperStatsNew

NotYet == -1

\* the task-level detail that the worker-pool view does not follow
NoTaskDetail ==
    /\ download = FALSE
    /\ tretries = <<>>
    /\ tresult = <<>>
    /\ tpost = <<>>
    /\ found_count = 0
    /\ reported = NotYet

IdlePool ==
    /\ screenshot = FALSE
    /\ permits = 0
    /\ tpc = <<>>
    /\ mpc = "idle"
    /\ next_site = 0
    /\ NoTaskDetail

IdleLock ==
    /\ shared = ScraperStatsNew
    /\ lock = 0
    /\ apc = <<>>
    /\ areg = <<>>
    /\ plan = <<>>

IdleTiming ==
    /\ records = <<>>
    /\ todoA = {}
    /\ todoB = {}
    /\ statsA = ScraperStatsNew
    /\ statsB = ScraperStatsNew

IdleResult ==
    /\ sr = ScanResultNew("alice", SiteName)
    /\ srSteps = 0

IdleProbe ==
    /\ pin = <<>>
    /\ pout = <<>>
    /\ ppc = "idle"

IdleRun ==
    /\ users = 0
    /\ nsites = 0
    /\ user = 0
    /\ scan = "idle"
    /\ workers = 0
    /\ sem = 0
    /\ guard = FALSE
    /\ tasks_at = <<>>
    /\ stale = 0

----------------------------------------------------------------------------
(* scraper.rs: check_with_adaptive_strategy                                *)

\* mutant: a Blocked attempt is retried like any other error
returns_result_retry_blocked(res, n, max) == ~res.error \/ n >= max

\* mutant: one retry too many
returns_result_off_by_one(res, n, max) ==
    ~res.error \/ res.status = "Blocked" \/ n > max

\* mutant: no result is retried
returns_result_never_retries(res, n, max) == TRUE

\* mutant: an unsupported detection method is not retried
returns_result_config_error_final(res, n, max) ==
    \/ ~res.error \/ res.status = "Blocked" \/ n >= max
    \/ res.error_msg[1] = "Unsupported error type: "

\* line 284: the loop returns the attempt's result
returns_result(res, n, max) ==
    ~res.error \/ res.status = "Blocked" \/ n >= max

\* mutant: the escalation skips Stealth
next_strategy_no_stealth(n) == "AntiBlock"

\* lines 290-293
next_strategy(n) == IF n = 1 THEN "Stealth" ELSE "AntiBlock"

\* line 295: Duration::from_millis(100 * retries as u64); retries is a u32,
\* so the u64 product cannot wrap
backoff_ms(n) == 100 * n

\* statistics a scraper may hold when a call starts: fresh, or already
\* used by other probes
StatsAtCall ==
    {ScraperStatsNew,
     [total_requests |-> 3, blocked_count |-> 1, cloudflare_detected |-> 1,
      fastest_site |-> <<"other", 1>>, slowest_site |-> <<"other", 2>>]}

\* the sites a retried call is explored on: every detection method and
\* probe template without a regex, and every regex on a status_code site
\* (the regex check of lines 165-173 precedes everything the method decides)
RetrySiteDatas ==
    {d \in SiteDatas :
        \/ d.regex_check = ""
        \/ d.error_type = "status_code" /\ d.url_probe = <<>>}

InitRetry ==
    /\ data \in RetrySiteDatas
    /\ username \in Usernames
    /\ use_tor \in BOOLEAN
    /\ tor_client = use_tor          \* main.rs:76 and :124 pass args.tor to both
    /\ max_retries \in 0..MaxRetriesBound
    /\ retries = 0
    /\ current_strategy = "Fast"
    /\ rpc = "attempt"
    /\ attempts = <<>>
    /\ delays = <<>>
    /\ result = ScanResultNew(username, SiteName)
    /\ stats \in StatsAtCall

\* lines 280-293: one attempt and the decision that follows it
Attempt ==
    /\ rpc = "attempt"
    /\ \E o \in {check_username_intelligent(stats, username, SiteName, data,
                    use_tor, tor_client, current_strategy, env) :
                    env \in Envs(data, username)} :
             /\ result' = o.result
             /\ stats' = o.stats
             /\ attempts' = Append(attempts,
                    [strategy |-> current_strategy, result |-> o.result,
                     sent |-> o.sent, before |-> stats, after |-> o.stats])
             /\ IF returns_result(o.result, retries, max_retries)
                THEN /\ rpc' = "returned"
                     /\ UNCHANGED <<retries, current_strategy>>
                ELSE /\ retries' = retries + 1
                     /\ current_strategy' = next_strategy(retries + 1)
                     /\ rpc' = "sleep"
    /\ UNCHANGED <<data, username, use_tor, tor_client, max_retries, delays>>
    /\ UNCHANGED notRetry

\* line 295: the sleep before the next attempt
Sleep ==
    /\ rpc = "sleep"
    /\ delays' = Append(delays, backoff_ms(retries))
    /\ rpc' = "attempt"
    /\ UNCHANGED <<data, username, use_tor, tor_client, max_retries, retries,
                   current_strategy, attempts, result, stats>>
    /\ UNCHANGED notRetry

NextRetry == Attempt \/ Sleep

\* one call of check_with_adaptive_strategy
StartRetry ==
    InitRetry /\ IdlePool /\ IdleLock /\ IdleTiming /\ IdleResult
    /\ IdleProbe
    /\ IdleRun

SpecRetry == StartRetry /\ [][NextRetry]_vars

\* every attempt returns (per-request timeouts) and the sleep ends
FairRetry == SpecRetry /\ WF_vars(Attempt) /\ WF_vars(Sleep)

----------------------------------------------------------------------------
(* scraper.rs: one call of check_username_intelligent                      *)

\* the sites one call is explored on: every marker on message sites, both
\* kinds of template on response_url sites, every regex on status_code
\* sites, and a site of an unsupported method
ProbeSiteDatas ==
    [error_type : {"message"}, error_msg : {"", ErrorMarker, JoinedMarker},
     url : {UrlTemplate}, url_probe : {<<>>}, regex_check : {""}]
    \cup [error_type : {"response_url"}, error_msg : {ErrorMarker},
          url : {UrlTemplate, HostTemplate}, url_probe : {<<>>, ProbeTemplate},
          regex_check : {""}]
    \cup [error_type : {"status_code"}, error_msg : {ErrorMarker},
          url : {UrlTemplate}, url_probe : {<<>>, ProbeTemplate},
          regex_check : Patterns]
    \cup [error_type : {"xpath"}, error_msg : {ErrorMarker},
          url : {UrlTemplate}, url_probe : {<<>>}, regex_check : {""}]

\* the indices get_random_user_agent can draw under a strategy; Fast
\* draws none (held at 1)
UaDraws(strategy) ==
    IF strategy = "Fast" THEN {1} ELSE DOMAIN USER_AGENTS

\* what one call is explored against: everything an attempt can meet,
\* except that a body with words in it comes without the edge-proxy
\* signature (the signature and the body are read independently)
ProbeEnvs(d, u) ==
    {e \in Envs(d, u) :
        \/ e.response.body = {}
        \/ e.response.server = "nginx" /\ ~e.response.cf_ray}

\* the arguments of one call, whether the scraper has a tor client, the
\* statistics it holds when the call starts, and what the call meets
InitProbe ==
    /\ \E d \in ProbeSiteDatas, u \in Usernames, tor \in BOOLEAN,
          has_tor \in BOOLEAN, strategy \in Strategies,
          st \in StatsAtCall :
         \E e \in ProbeEnvs(d, u), draw \in UaDraws(strategy) :
            pin = [data |-> d, username |-> u, use_tor |-> tor,
                   tor_client |-> has_tor, strategy |-> strategy,
                   ua_draw |-> draw, stats |-> st, env |-> e]
    /\ pout = <<>>
    /\ ppc = "ready"

\* what a call returns and leaves behind, with the User-Agent header of
\* the request it sent ("" when it sent none or attached none)
ProbeOutcome(o, ua) ==
    [result |-> o.result, stats |-> o.stats, sent |-> o.sent,
     requested |-> o.requested, client |-> o.client,
     user_agent |-> IF o.sent THEN ua ELSE ""]

\* lines 143-265: the call runs and returns
Probe ==
    /\ ppc = "ready"
    /\ pout' = ProbeOutcome(
                   check_username_intelligent(pin.stats, pin.username,
                       SiteName, pin.data, pin.use_tor, pin.tor_client,
                       pin.strategy, pin.env),
                   request_user_agent(pin.strategy, pin.ua_draw))
    /\ ppc' = "returned"
    /\ UNCHANGED pin
    /\ UNCHANGED notProbe

NextProbe == Probe

StartProbe ==
    InitProbe /\ IdleRetryPart /\ IdlePool /\ IdleLock /\ IdleTiming
    /\ IdleResult
    /\ IdleRun

SpecProbe == StartProbe /\ [][NextProbe]_vars

----------------------------------------------------------------------------
(* core.rs: sequences of ScanResult builder calls                          *)

\* confidence arguments a caller can pass: in range, out of range, and the
\* special values of f32
F32Args == {NegInf, -50, 0, 60, 100, 150, PosInf, NaN}
BuilderUrls == {Replace(UrlTemplate, "{}", "alice")}
BuilderMsgs == {<<"Rate limited">>}

\* ScanResult::new
InitResult ==
    /\ sr = ScanResultNew("alice", SiteName)
    /\ srSteps = 0

CallFound ==
    /\ srSteps < MaxBuilderCalls
    /\ \E url \in BuilderUrls, status \in ResultStatus, c \in F32Args :
         sr' = found(sr, url, url, status, c)
    /\ srSteps' = srSteps + 1
    /\ UNCHANGED notResult

CallNotFound ==
    /\ srSteps < MaxBuilderCalls
    /\ \E url \in BuilderUrls, status \in ResultStatus, c \in F32Args :
         sr' = not_found(sr, url, status, c)
    /\ srSteps' = srSteps + 1
    /\ UNCHANGED notResult

CallWithError ==
    /\ srSteps < MaxBuilderCalls
    /\ \E msg \in BuilderMsgs, status \in ResultStatus :
         sr' = with_error(sr, msg, status)
    /\ srSteps' = srSteps + 1
    /\ UNCHANGED notResult

NextResult == CallFound \/ CallNotFound \/ CallWithError

StartResult ==
    InitResult /\ IdleRetryPart /\ IdlePool /\ IdleLock /\ IdleTiming
    /\ IdleProbe
    /\ IdleRun

SpecResult == StartResult /\ [][NextResult]_vars

----------------------------------------------------------------------------
(* scraper.rs: update_timing applied to the same records in two orders     *)

TimingSites == 1..NumTimingSites

InitTiming ==
    /\ \E S \in SUBSET TimingSites : records \in [S -> 1..MaxDuration]
    /\ todoA = DOMAIN records
    /\ todoB = DOMAIN records
    /\ statsA = ScraperStatsNew
    /\ statsB = ScraperStatsNew

\* one completing probe records its duration (lines 254-258), first run
UpdateTimingA ==
    /\ \E site \in todoA :
         /\ statsA' = update_timing(statsA, site, records[site])
         /\ todoA' = todoA \ {site}
    /\ UNCHANGED <<records, todoB, statsB>>
    /\ UNCHANGED notTiming

\* the same records, completing in another order
UpdateTimingB ==
    /\ \E site \in todoB :
         /\ statsB' = update_timing(statsB, site, records[site])
         /\ todoB' = todoB \ {site}
    /\ UNCHANGED <<records, todoA, statsA>>
    /\ UNCHANGED notTiming

NextTiming == UpdateTimingA \/ UpdateTimingB

StartTiming ==
    InitTiming /\ IdleRetryPart /\ IdlePool /\ IdleLock /\ IdleResult
    /\ IdleProbe
    /\ IdleRun

SpecTiming == StartTiming /\ [][NextTiming]_vars

\* C9: after all update_timing calls the fastest_site and slowest_site
\* (site, duration) pairs are the same whatever the order of the calls,
\* including when two sites have equal durations.
C9_OrderIndependent ==
    (todoA = {} /\ todoB = {})
    => /\ statsA.fastest_site = statsB.fastest_site
       /\ statsA.slowest_site = statsB.slowest_site

----------------------------------------------------------------------------
(* scraper.rs: concurrent calls of check_username_intelligent on one       *)
(* scraper, at the grain of the statistics mutex (lines 187-258)           *)

Threads == 1..NumAttempts
NoOwner == 0

\* mutant: lock() does not wait for the owner to release the mutex
can_lock_unguarded(owner) == TRUE

\* Mutex::lock returns once no other thread owns the mutex
can_lock(owner) == owner = NoOwner

\* the probes run concurrently: a status_code site and a site with an
\* unsupported method, with a username the regex accepts and one it rejects
LockProbes ==
    {pr \in [data : SiteDatas, username : Usernames] :
        /\ pr.data.url_probe = <<>>
        /\ pr.data.regex_check = RegexValid
        /\ pr.data.error_type \in {"status_code", "xpath"}}

\* the positions at which a thread owns the mutex
OwnerPcs == {"err_load", "err_store", "load_total", "store_total", "load_cf",
             "store_cf", "load_blocked", "store_blocked", "unlock", "timing"}

InitLock ==
    /\ shared = ScraperStatsNew
    /\ lock = NoOwner
    /\ apc = [t \in Threads |-> "start"]
    /\ areg = [t \in Threads |-> 0]
    /\ \E probes \in [Threads -> LockProbes] :
         plan = [t \in Threads |->
                    [data |-> probes[t].data, username |-> probes[t].username,
                     sent |-> FALSE, cf |-> FALSE, rl |-> FALSE,
                     res |-> "none", elapsed |-> 0]]

\* lines 151-173: the regex short-circuit returns before any request
RegexCheck(t) ==
    /\ apc[t] = "start"
    /\ apc' = [apc EXCEPT ![t] =
                  IF regex_rejects(plan[t].data, plan[t].username)
                  THEN "done" ELSE "send"]
    /\ UNCHANGED <<shared, lock, areg, plan>>
    /\ UNCHANGED notLock

\* lines 187-193: request.send().await returns a response or an error
SendReturns(t) ==
    /\ apc[t] = "send"
    /\ \E env \in Envs(plan[t].data, plan[t].username) :
         IF env.send # "ok"
         THEN /\ plan' = [plan EXCEPT ![t].sent = TRUE, ![t].res = "err"]
              /\ apc' = [apc EXCEPT ![t] = "err_lock"]
         ELSE /\ plan' = [plan EXCEPT
                     ![t].sent = TRUE,
                     ![t].cf = detect_cloudflare(env.response),
                     ![t].rl = detect_rate_limit(env.response),
                     ![t].res = classify(plan[t].data,
                                    Replace(plan[t].data.url, "{}",
                                            plan[t].username),
                                    env.response)[1]]
              /\ apc' = [apc EXCEPT ![t] = "lock"]
    /\ UNCHANGED <<shared, lock, areg>>
    /\ UNCHANGED notLock

\* line 190: self.stats.lock().unwrap()
ErrLock(t) ==
    /\ apc[t] = "err_lock"
    /\ can_lock(lock)
    /\ lock' = t
    /\ apc' = [apc EXCEPT ![t] = "err_load"]
    /\ UNCHANGED <<shared, areg, plan>>
    /\ UNCHANGED notLock

\* line 190: total_requests += 1, the read
ErrLoad(t) ==
    /\ apc[t] = "err_load"
    /\ areg' = [areg EXCEPT ![t] = shared.total_requests]
    /\ apc' = [apc EXCEPT ![t] = "err_store"]
    /\ UNCHANGED <<shared, lock, plan>>
    /\ UNCHANGED notLock

\* line 190-191: the write; the guard is dropped at the end of the
\* statement and the Error result is returned
ErrStore(t) ==
    /\ apc[t] = "err_store"
    /\ shared' = [shared EXCEPT !.total_requests = areg[t] + 1]
    /\ lock' = NoOwner
    /\ apc' = [apc EXCEPT ![t] = "done"]
    /\ UNCHANGED <<areg, plan>>
    /\ UNCHANGED notLock

\* line 196: let mut stats = self.stats.lock().unwrap()
Lock(t) ==
    /\ apc[t] = "lock"
    /\ can_lock(lock)
    /\ lock' = t
    /\ apc' = [apc EXCEPT ![t] = "load_total"]
    /\ UNCHANGED <<shared, areg, plan>>
    /\ UNCHANGED notLock

\* line 197: stats.total_requests += 1, the read
LoadTotal(t) ==
    /\ apc[t] = "load_total"
    /\ areg' = [areg EXCEPT ![t] = shared.total_requests]
    /\ apc' = [apc EXCEPT ![t] = "store_total"]
    /\ UNCHANGED <<shared, lock, plan>>
    /\ UNCHANGED notLock

\* line 197: the write; then the tests of lines 199 and 203
StoreTotal(t) ==
    /\ apc[t] = "store_total"
    /\ shared' = [shared EXCEPT !.total_requests = areg[t] + 1]
    /\ apc' = [apc EXCEPT ![t] =
                  IF plan[t].cf THEN "load_cf"
                  ELSE IF plan[t].rl THEN "load_blocked" ELSE "unlock"]
    /\ UNCHANGED <<lock, areg, plan>>
    /\ UNCHANGED notLock

\* line 200: stats.cloudflare_detected += 1, the read
LoadCf(t) ==
    /\ apc[t] = "load_cf"
    /\ areg' = [areg EXCEPT ![t] = shared.cloudflare_detected]
    /\ apc' = [apc EXCEPT ![t] = "store_cf"]
    /\ UNCHANGED <<shared, lock, plan>>
    /\ UNCHANGED notLock

\* line 200: the write; then the test of line 203
StoreCf(t) ==
    /\ apc[t] = "store_cf"
    /\ shared' = [shared EXCEPT !.cloudflare_detected = areg[t] + 1]
    /\ apc' = [apc EXCEPT ![t] =
                  IF plan[t].rl THEN "load_blocked" ELSE "unlock"]
    /\ UNCHANGED <<lock, areg, plan>>
    /\ UNCHANGED notLock

\* line 204: stats.blocked_count += 1, the read
LoadBlocked(t) ==
    /\ apc[t] = "load_blocked"
    /\ areg' = [areg EXCEPT ![t] = shared.blocked_count]
    /\ apc' = [apc EXCEPT ![t] = "store_blocked"]
    /\ UNCHANGED <<shared, lock, plan>>
    /\ UNCHANGED notLock

\* line 204: the write
StoreBlocked(t) ==
    /\ apc[t] = "store_blocked"
    /\ shared' = [shared EXCEPT !.blocked_count = areg[t] + 1]
    /\ apc' = [apc EXCEPT ![t] = "unlock"]
    /\ UNCHANGED <<lock, areg, plan>>
    /\ UNCHANGED notLock

\* lines 205-207: the guard is dropped, by the return of the Blocked
\* result or at the end of the block
Unlock(t) ==
    /\ apc[t] = "unlock"
    /\ lock' = NoOwner
    /\ apc' = [apc EXCEPT ![t] = IF plan[t].rl THEN "done" ELSE "classify"]
    /\ UNCHANGED <<shared, areg, plan>>
    /\ UNCHANGED notLock

\* lines 209-252: the detection method; an Error result returns at once
Classify(t) ==
    /\ apc[t] = "classify"
    /\ apc' = [apc EXCEPT ![t] =
                  IF plan[t].res = "err" THEN "done" ELSE "timing_lock"]
    /\ UNCHANGED <<shared, lock, areg, plan>>
    /\ UNCHANGED notLock

\* lines 255-257: self.stats.lock().unwrap()
TimingLock(t) ==
    /\ apc[t] = "timing_lock"
    /\ can_lock(lock)
    /\ lock' = t
    /\ apc' = [apc EXCEPT ![t] = "timing"]
    /\ UNCHANGED <<shared, areg, plan>>
    /\ UNCHANGED notLock

\* lines 254-258: update_timing with the elapsed time, under the guard,
\* which is dropped at the end of the statement
Timing(t) ==
    /\ apc[t] = "timing"
    /\ \E elapsed \in 1..MaxElapsed :
         /\ shared' = update_timing(shared, t, elapsed)
         /\ plan' = [plan EXCEPT ![t].elapsed = elapsed]
    /\ lock' = NoOwner
    /\ apc' = [apc EXCEPT ![t] = "done"]
    /\ UNCHANGED areg
    /\ UNCHANGED notLock

NextLock ==
    \E t \in Threads :
        \/ RegexCheck(t) \/ SendReturns(t)
        \/ ErrLock(t) \/ ErrLoad(t) \/ ErrStore(t)
        \/ Lock(t) \/ LoadTotal(t) \/ StoreTotal(t)
        \/ LoadCf(t) \/ StoreCf(t)
        \/ LoadBlocked(t) \/ StoreBlocked(t)
        \/ Unlock(t) \/ Classify(t) \/ TimingLock(t) \/ Timing(t)

StartLock ==
    InitLock /\ IdleRetryPart /\ IdlePool /\ IdleTiming /\ IdleResult
    /\ IdleProbe
    /\ IdleRun

SpecLock == StartLock /\ [][NextLock]_vars

\* C8: updates of the shared statistics are mutually exclusive, and once
\* all attempts have finished total_requests is the number of attempts
\* that sent a request, blocked_count the number of 429/503 responses and
\* cloudflare_detected the number of responses with the edge-proxy
\* signature.
C8_NoLostUpdate ==
    /\ Cardinality({t \in Threads : apc[t] \in OwnerPcs}) <= 1
    /\ \A t \in Threads : apc[t] \in OwnerPcs <=> lock = t
    /\ (\A t \in Threads : apc[t] = "done")
       => /\ shared.total_requests =
                Cardinality({t \in Threads : plan[t].sent})
          /\ shared.blocked_count =
                Cardinality({t \in Threads : plan[t].rl})
          /\ shared.cloudflare_detected =
                Cardinality({t \in Threads : plan[t].cf})

C8_Witness ==
    /\ \A t \in Threads : apc[t] = "done"
    /\ shared.total_requests >= 2
    /\ shared.blocked_count >= 1
    /\ shared.cloudflare_detected >= 2

----------------------------------------------------------------------------
(* main.rs, cli.rs: the worker pool of scan_username, one task per site.   *)
(* A task is followed from its spawn to the release of its permit; what it *)
(* does while it holds the permit (the retried probe and the post-match    *)
(* actions, lines 123-153) is one step here, and no task panics.           *)

PoolSites == 1..NumPoolSites

\* Cli::max_workers
max_workers(shot) == IF shot THEN 8 ELSE 32

\* mutant: acquire() hands out a permit that is not there
permit_available_always(n) == TRUE

\* Semaphore::acquire returns once a permit is free
permit_available(n) == n > 0

\* mutant: the permit is not given back when the task ends
release_permit_leaked(n) == n

\* line 154: _permit is dropped at the end of the task
release_permit(n) == n + 1

\* the tasks that hold a permit
Holders == {t \in DOMAIN tpc : tpc[t] = "running"}
\* the tasks whose JoinHandle is ready
Finished == {t \in DOMAIN tpc : tpc[t] \in {"done", "panicked"}}

\* lines 99-106: the semaphore is created, no task is spawned yet
InitPool ==
    /\ screenshot \in BOOLEAN
    /\ permits = max_workers(screenshot)
    /\ tpc = [t \in PoolSites |-> "unspawned"]
    /\ mpc = "spawn"
    /\ next_site = 1
    /\ NoTaskDetail

\* lines 108-157: tokio::spawn of the next site's task
Spawn ==
    /\ mpc = "spawn"
    /\ tpc' = [tpc EXCEPT ![next_site] = "waiting"]
    /\ IF next_site = NumPoolSites
       THEN mpc' = "join" /\ next_site' = 1
       ELSE mpc' = mpc /\ next_site' = next_site + 1
    /\ UNCHANGED <<screenshot, permits, taskDetail>>
    /\ UNCHANGED notPool

\* line 121: let _permit = semaphore.acquire().await.unwrap()
Acquire(t) ==
    /\ tpc[t] = "waiting"
    /\ permit_available(permits)
    /\ permits' = permits - 1
    /\ tpc' = [tpc EXCEPT ![t] = "running"]
    /\ UNCHANGED <<screenshot, mpc, next_site, taskDetail>>
    /\ UNCHANGED notPool

\* lines 123-154: the task runs to its end and _permit is dropped
Complete(t) ==
    /\ tpc[t] = "running"
    /\ permits' = release_permit(permits)
    /\ tpc' = [tpc EXCEPT ![t] = "done"]
    /\ UNCHANGED <<screenshot, mpc, next_site, taskDetail>>
    /\ UNCHANGED notPool

\* lines 160-162: let _ = task.await, for the tasks in spawn order
Join ==
    /\ mpc = "join"
    /\ next_site \in Finished
    /\ IF next_site = NumPoolSites
       THEN mpc' = "summary" /\ next_site' = next_site
       ELSE mpc' = mpc /\ next_site' = next_site + 1
    /\ UNCHANGED <<screenshot, permits, tpc, taskDetail>>
    /\ UNCHANGED notPool

\* lines 165-169: the summary is printed and scan_username returns
Summary ==
    /\ mpc = "summary"
    /\ mpc' = "done"
    /\ UNCHANGED <<screenshot, permits, tpc, next_site, taskDetail>>
    /\ UNCHANGED notPool

NextPool ==
    \/ Spawn
    \/ \E t \in PoolSites : Acquire(t) \/ Complete(t)
    \/ Join
    \/ Summary

StartPool ==
    InitPool /\ IdleRetryPart /\ IdleLock /\ IdleTiming /\ IdleResult
    /\ IdleProbe
    /\ IdleRun

SpecPool == StartPool /\ [][NextPool]_vars

\* tokio runs every spawned task that can make progress; scan_username
\* itself keeps running
FairPool ==
    /\ SpecPool
    /\ WF_vars(Spawn) /\ WF_vars(Join) /\ WF_vars(Summary)
    /\ \A t \in PoolSites : WF_vars(Acquire(t)) /\ WF_vars(Complete(t))

\* C1: with worker budget N (8 with screenshots, 32 without), the number of
\* tasks that hold a worker permit is at most N in every reachable state.
C1_AtMostNInFlight ==
    /\ Cardinality(Holders) <= (IF screenshot THEN 8 ELSE 32)
    /\ Cardinality(Holders) + permits = (IF screenshot THEN 8 ELSE 32)

\* the budget is exhausted while a further task waits
C1_Witness ==
    /\ screenshot
    /\ Cardinality(Holders) = 8
    /\ permits = 0
    /\ \E t \in PoolSites : tpc[t] = "waiting"

----------------------------------------------------------------------------
(* main.rs: scan_username with each site task followed step by step:       *)
(* the retried probe, the report of its result, the post-match actions,    *)
(* and a panic of the task at any of these steps.                          *)

ScanSites == 1..NumScanSites

\* the site database of the scan: one site per detection method in turn,
\* the second one with a method the classifier does not support
Database ==
    [t \in ScanSites |->
        [error_type |-> CASE t % 4 = 1 -> "status_code"
                          [] t % 4 = 2 -> "xpath"
                          [] t % 4 = 3 -> "message"
                          [] OTHER     -> "response_url",
         error_msg |-> ErrorMarker, url |-> UrlTemplate, url_probe |-> <<>>,
         regex_check |-> ""]]

ScanUser == "alice"

\* main.rs:124: the max_retries argument of the retried probe
ScanMaxRetries == 2

\* what the task reads of a ScanResult (lines 129-153)
Verdict(r) == [exist |-> r.exist, error |-> r.error, status |-> r.status]

NoVerdict == [exist |-> FALSE, error |-> FALSE, status |-> "none"]

\* the verdicts one attempt on site t can return
AttemptVerdicts(t, strategy) ==
    {Verdict(check_username_intelligent(ScraperStatsNew, ScanUser, t,
                 Database[t], FALSE, FALSE, strategy, env).result) :
         env \in Envs(Database[t], ScanUser)}

\* the same, tabulated per site and strategy
VerdictTable ==
    [t \in ScanSites |-> [s \in Strategies |-> AttemptVerdicts(t, s)]]

\* mutant: the JoinError of a panicked task is unwrapped
join_discards_result_unwrapped(pc) == pc # "panicked"

\* line 161: let _ = task.await discards the task's Result, Err included
join_discards_result(pc) == TRUE

\* the positions at which a task holds its permit
PermitPcs == {"attempt", "sleep", "report", "print", "post"}

\* the positions at which a task can panic: nothing can between the
\* return of the probe and the fetch_add (lines 126-130)
PanicPcs == PermitPcs \ {"report"}

\* the names of the sites of the scan (the keys of the database)
SiteNames ==
    [t \in ScanSites |-> CASE t % 3 = 1 -> "Instagram"
                           [] t % 3 = 2 -> "instagram"
                           [] OTHER     -> "GitHub"]

\* downloader.rs:27-29: register inserts under the lowercased name
register(downloaders, site) == downloaders \cup {ToLower(site)}

\* downloader.rs:17-25: DownloaderRegistry::new
DownloaderRegistryNew == register({}, "instagram")

\* mutant: the lookup is by the name as given
registry_lookup_exact(downloaders, site) == site \in downloaders

\* downloader.rs:32-34: self.downloaders.get(&site.to_lowercase())
registry_lookup(downloaders, site) == ToLower(site) \in downloaders

\* downloader.rs:31-42: DownloaderRegistry::download: whether a
\* downloader ran, and what download returns
registry_download(downloaders, site) ==
    IF registry_lookup(downloaders, site)
    THEN {[ran |-> TRUE, ret |-> "Ok"], [ran |-> TRUE, ret |-> "Err"]}
    ELSE {[ran |-> FALSE, ret |-> "Ok"]}

\* chrome.rs:127-138: what take_screenshot returns
ScreenshotReturns == {"Ok", "Err"}

\* a post-match action that is not enabled
Off == "off"

NoPost == [shot |-> Off, ran |-> FALSE, dl |-> Off, warnings |-> 0]

\* mutant: a result with an error is counted too
count_found_or_error(n, r) == IF r.exist \/ r.error THEN n + 1 ELSE n

\* lines 129-130: if result.exist { found_count.fetch_add(1, SeqCst) }
count_found(n, r) == IF r.exist THEN n + 1 ELSE n

InitScan ==
    /\ screenshot \in BOOLEAN
    /\ download \in BOOLEAN
    /\ permits = max_workers(screenshot)
    /\ tpc = [t \in ScanSites |-> "unspawned"]
    /\ tretries = [t \in ScanSites |-> 0]
    /\ tresult = [t \in ScanSites |-> NoVerdict]
    /\ tpost = [t \in ScanSites |-> NoPost]
    /\ found_count = 0
    /\ reported = NotYet
    /\ mpc = "spawn"
    /\ next_site = 1

\* lines 108-157: tokio::spawn of the next site's task
ScanSpawn ==
    /\ mpc = "spawn"
    /\ tpc' = [tpc EXCEPT ![next_site] = "waiting"]
    /\ IF next_site = NumScanSites
       THEN mpc' = "join" /\ next_site' = 1
       ELSE mpc' = mpc /\ next_site' = next_site + 1
    /\ UNCHANGED <<screenshot, permits, taskDetail>>
    /\ UNCHANGED notPool

\* line 121: let _permit = semaphore.acquire().await.unwrap()
TaskAcquire(t) ==
    /\ tpc[t] = "waiting"
    /\ permit_available(permits)
    /\ permits' = permits - 1
    /\ tpc' = [tpc EXCEPT ![t] = "attempt"]
    /\ UNCHANGED <<screenshot, mpc, next_site, taskDetail>>
    /\ UNCHANGED notPool

\* lines 123-126, scraper.rs:280-293: one attempt of the retried probe
TaskAttempt(t) ==
    /\ tpc[t] = "attempt"
    /\ \E v \in VerdictTable[t][IF tretries[t] = 0 THEN "Fast"
                                  ELSE next_strategy(tretries[t])] :
         /\ tresult' = [tresult EXCEPT ![t] = v]
         /\ IF returns_result(v, tretries[t], ScanMaxRetries)
            THEN /\ tpc' = [tpc EXCEPT ![t] = "report"]
                 /\ UNCHANGED tretries
            ELSE /\ tpc' = [tpc EXCEPT ![t] = "sleep"]
                 /\ tretries' = [tretries EXCEPT ![t] = @ + 1]
    /\ UNCHANGED <<screenshot, permits, mpc, next_site, download, tpost,
                   found_count, reported>>
    /\ UNCHANGED notPool

\* scraper.rs:295: the sleep before the next attempt
TaskSleep(t) ==
    /\ tpc[t] = "sleep"
    /\ tpc' = [tpc EXCEPT ![t] = "attempt"]
    /\ UNCHANGED <<screenshot, permits, mpc, next_site, taskDetail>>
    /\ UNCHANGED notPool

\* lines 129-130: the test of result.exist and the fetch_add
TaskReport(t) ==
    /\ tpc[t] = "report"
    /\ found_count' = count_found(found_count, tresult[t])
    /\ tpc' = [tpc EXCEPT ![t] = "print"]
    /\ UNCHANGED <<screenshot, permits, mpc, next_site, download, tretries,
                   tresult, tpost, reported>>
    /\ UNCHANGED notPool

\* lines 131, 150, 152: the result is printed; without post-match
\* actions to run the task ends here and _permit is dropped
TaskPrint(t) ==
    /\ tpc[t] = "print"
    /\ IF tresult[t].exist /\ (screenshot \/ download)
       THEN /\ tpc' = [tpc EXCEPT ![t] = "post"]
            /\ UNCHANGED permits
       ELSE /\ tpc' = [tpc EXCEPT ![t] = "done"]
            /\ permits' = release_permit(permits)
    /\ UNCHANGED <<screenshot, mpc, next_site, taskDetail>>
    /\ UNCHANGED notPool

\* lines 133-148: screenshot and download; an Err of either is printed as
\* a warning; the task ends and _permit is dropped
TaskPostMatch(t) ==
    /\ tpc[t] = "post"
    /\ \E shot \in (IF screenshot THEN ScreenshotReturns ELSE {Off}),
          dl \in (IF download
                  THEN registry_download(DownloaderRegistryNew, SiteNames[t])
                  ELSE {[ran |-> FALSE, ret |-> Off]}) :
         tpost' = [tpost EXCEPT ![t] =
                      [shot |-> shot, ran |-> dl.ran, dl |-> dl.ret,
                       warnings |-> (IF shot = "Err" THEN 1 ELSE 0)
                                    + (IF dl.ret = "Err" THEN 1 ELSE 0)]]
    /\ tpc' = [tpc EXCEPT ![t] = "done"]
    /\ permits' = release_permit(permits)
    /\ UNCHANGED <<screenshot, mpc, next_site, download, tretries, tresult,
                   found_count, reported>>
    /\ UNCHANGED notPool

\* the task panics while it holds its permit (the transport, println! on
\* a closed stdout, a collaborator): unwinding drops _permit and the
\* JoinHandle yields Err; the retry count is gone with the task's stack,
\* and so is the result of an attempt when the probe had not returned.
\* The result a probe did return is kept as the task's final outcome.
\* A panic in print_found (line 131) comes after the fetch_add of line
\* 130.  None of these points lies inside a critical section of the
\* statistics mutex (scraper.rs:190, 196-207, 255-258), so the mutex is
\* never poisoned.
TaskPanic(t) ==
    /\ tpc[t] \in PanicPcs
    /\ tpc' = [tpc EXCEPT ![t] = "panicked"]
    /\ permits' = release_permit(permits)
    /\ tretries' = [tretries EXCEPT ![t] = 0]
    /\ tresult' = IF tpc[t] \in {"attempt", "sleep"}
                  THEN [tresult EXCEPT ![t] = NoVerdict]
                  ELSE tresult
    /\ UNCHANGED <<screenshot, mpc, next_site, download, tpost, found_count,
                   reported>>
    /\ UNCHANGED notPool

\* lines 160-162: let _ = task.await, for the tasks in spawn order
ScanJoin ==
    /\ mpc = "join"
    /\ tpc[next_site] \in {"done", "panicked"}
    /\ IF ~join_discards_result(tpc[next_site])
       THEN mpc' = "crashed" /\ next_site' = next_site
       ELSE IF next_site = NumScanSites
            THEN mpc' = "summary" /\ next_site' = next_site
            ELSE mpc' = mpc /\ next_site' = next_site + 1
    /\ UNCHANGED <<screenshot, permits, tpc, taskDetail>>
    /\ UNCHANGED notPool

\* lines 165-169: the summary is printed and scan_username returns
ScanSummary ==
    /\ mpc = "summary"
    /\ reported' = found_count
    /\ mpc' = "done"
    /\ UNCHANGED <<screenshot, permits, tpc, next_site, download, tretries,
                   tresult, tpost, found_count>>
    /\ UNCHANGED notPool

\* lines 120-156: the next step of site t's task, short of a panic
TaskStep(t) ==
    \/ TaskAcquire(t) \/ TaskAttempt(t) \/ TaskSleep(t)
    \/ TaskReport(t) \/ TaskPrint(t) \/ TaskPostMatch(t)

NextScan ==
    \/ ScanSpawn
    \/ \E t \in ScanSites : TaskStep(t) \/ TaskPanic(t)
    \/ ScanJoin
    \/ ScanSummary

StartScan ==
    InitScan /\ IdleRetryPart /\ IdleLock /\ IdleTiming /\ IdleResult
    /\ IdleProbe
    /\ IdleRun

SpecScan == StartScan /\ [][NextScan]_vars

\* tokio runs every task that can make progress, every attempt returns
\* and every sleep ends; nothing obliges a task to panic
FairScan ==
    /\ SpecScan
    /\ WF_vars(ScanSpawn) /\ WF_vars(ScanJoin) /\ WF_vars(ScanSummary)
    /\ \A t \in ScanSites : WF_vars(TaskStep(t))

\* C7: when a site's task fails (retries exhausted with Error, or a panic
\* while it holds its permit) its permit is released, the step that fails
\* changes nothing of any other task, every task still ends (each
\* completed one with a verdict of its own site's probe), and the run
\* reaches the end of its summary without crashing.
C7_FailureIsIsolated ==
    /\ <>[](mpc = "done" /\ \A t \in ScanSites : tpc[t] \in {"done", "panicked"})
    /\ [](mpc # "crashed")
    /\ [](Cardinality({t \in ScanSites : tpc[t] \in PermitPcs}) + permits
            = max_workers(screenshot))
    /\ [](\A t \in ScanSites :
            tpc[t] = "done" => tresult[t] \in VerdictTable[t]["Fast"])
    /\ [][\A t \in ScanSites :
            (tpc[t] \in PermitPcs /\ tpc'[t] \in {"done", "panicked"})
            => /\ permits' = permits + 1
               /\ \A u \in ScanSites \ {t} :
                    /\ tpc'[u] = tpc[u]
                    /\ tresult'[u] = tresult[u]
                    /\ tretries'[u] = tretries[u]]_vars

\* one task has panicked, one has used up its retries on Error, and a
\* third has completed with a match; the summary is out
C7_Witness ==
    /\ mpc = "done"
    /\ \E t \in ScanSites : tpc[t] = "panicked"
    /\ \E t \in ScanSites :
         tpc[t] = "done" /\ tresult[t].status = "Error"
         /\ tretries[t] = ScanMaxRetries
    /\ \E t \in ScanSites : tpc[t] = "done" /\ tresult[t].exist
    /\ permits = max_workers(screenshot)

----------------------------------------------------------------------------
(* Properties of check_with_adaptive_strategy                              *)

\* attempt number k (from 0) is the (k+1)-th entry of the history
ErroredNotBlocked(k) ==
    attempts[k].result.error /\ attempts[k].result.status # "Blocked"

\* C2: attempt k (from 0) uses Fast if k = 0, Stealth if k = 1, AntiBlock
\* if k >= 2; the delay slept just before attempt k >= 1 is 100ms x k; a
\* probe that always errors (not Blocked) with max_retries = 2 is attempted
\* exactly three times, [Fast, Stealth, AntiBlock], with delays 100, 200.
C2_StrategySequence ==
    /\ \A i \in 1..Len(attempts) :
         attempts[i].strategy =
             IF i - 1 = 0 THEN "Fast"
             ELSE IF i - 1 = 1 THEN "Stealth" ELSE "AntiBlock"
    /\ \A k \in 1..Len(delays) : delays[k] = 100 * k
    /\ Len(delays) = IF rpc = "attempt" THEN Len(attempts)
                     ELSE Len(attempts) - 1
    /\ ( /\ rpc = "returned"
         /\ max_retries = 2
         /\ \A i \in 1..Len(attempts) : ErroredNotBlocked(i) )
       => /\ [i \in 1..Len(attempts) |-> attempts[i].strategy]
               = <<"Fast", "Stealth", "AntiBlock">>
          /\ delays = <<100, 200>>

C2_Witness ==
    /\ rpc = "returned"
    /\ max_retries = 2
    /\ Len(attempts) = 3
    /\ \A i \in 1..Len(attempts) : ErroredNotBlocked(i)

\* C3: an attempt whose outcome is Blocked is the last one whatever the
\* retries remaining: the call has returned that outcome, and no delay
\* follows the attempt.
C3_BlockedIsTerminal ==
    \A i \in 1..Len(attempts) :
        attempts[i].result.status = "Blocked"
        => /\ i = Len(attempts)
           /\ rpc = "returned"
           /\ result = attempts[i].result
           /\ result.status = "Blocked"
           /\ Len(delays) = i - 1

C3_Witness ==
    /\ rpc = "returned"
    /\ max_retries = 2
    /\ Len(attempts) = 1
    /\ result.status = "Blocked"

\* the (i)-th attempt of the history is one the call stops at
StopsAt(i) ==
    \/ ~attempts[i].result.error
    \/ attempts[i].result.status = "Blocked"
    \/ i - 1 >= max_retries

\* C4: the call terminates after at most max_retries + 1 attempts (every
\* step adds an attempt or a delay to a history of bounded length, and a
\* call that has not returned can always take a step), it stops exactly at
\* the first attempt that has error = false, or is Blocked, or is made with
\* max_retries retries used, and returns that attempt's outcome.
C4_TerminatesAtFirstStop ==
    /\ Len(attempts) <= max_retries + 1
    /\ Len(delays) <= max_retries
    /\ rpc # "returned" => ENABLED (Attempt \/ Sleep)
    /\ \A i \in 1..Len(attempts) :
         StopsAt(i) <=> (i = Len(attempts) /\ rpc = "returned")
    /\ rpc = "returned" => result = attempts[Len(attempts)].result

C4_Witness ==
    /\ rpc = "returned"
    /\ max_retries = 2
    /\ Len(attempts) = max_retries + 1
    /\ result.status = "Error"

\* C5: when the site defines a regex and the username fails to match it,
\* the outcome is exist = false, NotFound, 0.95, error = false, no request
\* is sent, the statistics are unchanged, and the call makes one attempt.
C5_RegexShortCircuit ==
    ( /\ data.regex_check # ""
      /\ RegexNewOk(data.regex_check)
      /\ RegexIsMatch(data.regex_check, username) = "false"
      /\ attempts # <<>> )
    => /\ Len(attempts) = 1
       /\ rpc = "returned"
       /\ result.exist = FALSE
       /\ result.status = "NotFound"
       /\ result.confidence = 95
       /\ result.error = FALSE
       /\ ~attempts[1].sent
       /\ attempts[1].after = attempts[1].before
       /\ stats = attempts[1].before

C5_Witness ==
    /\ data.regex_check = RegexValid
    /\ username = "al1ce"
    /\ max_retries = 2
    /\ rpc = "returned"
    /\ stats.total_requests = 3
    /\ stats.fastest_site # None

----------------------------------------------------------------------------
(* Properties of one call of check_username_intelligent                    *)

\* the call has returned after receiving a response
Received == ppc = "returned" /\ pout.sent /\ pin.env.send = "ok"

\* the response received did not have status 429 or 503
NotRateLimited == pin.env.response.status \notin {429, 503}

\* the resolved public URL: the username substituted into the main template
ResolvedUrl == Replace(pin.data.url, "{}", pin.username)

\* the verdict fields of the returned outcome
VerdictIs(exist, status, confidence, error) ==
    /\ pout.result.exist = exist
    /\ pout.result.status = status
    /\ pout.result.confidence = confidence
    /\ pout.result.error = error

\* C11: a received response with status 429 or 503 is classified Blocked,
\* error = true, exist = false, confidence 0, whatever the site's detection
\* method; blocked_count grows by exactly one and no detection-method
\* classification is applied (no timing is recorded, the message is the
\* rate-limit one).
C11_RateLimitIsBlocked ==
    (Received /\ pin.env.response.status \in {429, 503})
    => /\ VerdictIs(FALSE, "Blocked", 0, TRUE)
       /\ pout.result.error_msg = <<"Rate limited">>
       /\ pout.stats.blocked_count = pin.stats.blocked_count + 1
       /\ pout.stats.fastest_site = pin.stats.fastest_site
       /\ pout.stats.slowest_site = pin.stats.slowest_site

\* a 503 met by a site of an unsupported detection method
C11_Witness ==
    /\ Received
    /\ pin.data.error_type = "xpath"
    /\ pin.env.response.status = 503
    /\ pout.result.status = "Blocked"
    /\ pout.stats.blocked_count = 2

\* C12: on a status_code site a received response that is not 429/503
\* yields Confirmed 0.85 with exist = true for a 2xx status, NotFound 0.90
\* for 404 and NotFound 0.60 for every other status, error = false.
C12_StatusCodeMethod ==
    (Received /\ NotRateLimited /\ pin.data.error_type = "status_code")
    => LET status == pin.env.response.status
       IN  IF status >= 200 /\ status <= 299
           THEN VerdictIs(TRUE, "Confirmed", 85, FALSE)
           ELSE IF status = 404
                THEN VerdictIs(FALSE, "NotFound", 90, FALSE)
                ELSE VerdictIs(FALSE, "NotFound", 60, FALSE)

\* a 204 on a status_code site is a match
C12_Witness ==
    /\ Received
    /\ pin.data.error_type = "status_code"
    /\ pin.env.response.status = 204
    /\ pout.result.exist

\* the body of the response was read
Readable == pin.env.response.body # Unreadable

\* C13: on a message site, for every configured marker and every readable
\* body of a response that is not 429/503, a body that contains the marker
\* yields exist = false, NotFound, 0.90, error = false.
C13_MarkerPresentIsNotFound ==
    ( /\ Received /\ NotRateLimited /\ pin.data.error_type = "message"
      /\ Readable
      /\ Contains(pin.env.response.body, pin.data.error_msg) )
    => VerdictIs(FALSE, "NotFound", 90, FALSE)

\* a body that holds the marker next to two profile keywords
C13_Witness ==
    /\ Received /\ NotRateLimited
    /\ pin.data.error_type = "message"
    /\ pin.data.error_msg = ErrorMarker
    /\ pin.env.response.body = {ErrorMarker, "Profile", "followers"}
    /\ pout.result.status = "NotFound"

\* the number of the keywords profile, posts, followers in the lowercased body
KeywordCount(body) ==
    Cardinality({k \in {"profile", "posts", "followers"} :
                    Contains({ToLower(w) : w \in body}, k)})

\* C14: on a message site, a body without the site's marker yields
\* exist = true, Confirmed at the heuristic's confidence when its lowercased
\* text holds two or more of the keywords, and exist = true, Likely, 0.75
\* otherwise.
C14_MarkerAbsentHeuristic ==
    ( /\ Received /\ NotRateLimited /\ pin.data.error_type = "message"
      /\ Readable
      /\ ~Contains(pin.env.response.body, pin.data.error_msg) )
    => IF KeywordCount(pin.env.response.body) >= 2
       THEN /\ pout.result.exist
            /\ pout.result.status = "Confirmed"
            /\ ~pout.result.error
       ELSE VerdictIs(TRUE, "Likely", 75, FALSE)

\* C15: on a response_url site a received response that is not 429/503
\* yields exist = true, Confirmed, 0.90 exactly when its status is a success
\* and the final URL is the resolved main URL, and exist = false, NotFound,
\* 0.85 in every other case.
C15_ResponseUrlMethod ==
    (Received /\ NotRateLimited /\ pin.data.error_type = "response_url")
    => IF /\ is_success(pin.env.response.status)
          /\ pin.env.response.final_url = ResolvedUrl
       THEN VerdictIs(TRUE, "Confirmed", 90, FALSE)
       ELSE VerdictIs(FALSE, "NotFound", 85, FALSE)

\* C16: a send that fails at transport level yields Error, error = true,
\* exist = false, confidence 0 and the error's text as message;
\* total_requests grows by one and the rest of the statistics is unchanged.
C16_TransportFailure ==
    (ppc = "returned" /\ pout.sent /\ pin.env.send # "ok")
    => /\ VerdictIs(FALSE, "Error", 0, TRUE)
       /\ pout.result.error_msg = <<pin.env.send>>
       /\ pout.stats = [pin.stats EXCEPT !.total_requests = @ + 1]

\* a failed send on a scraper whose statistics are already populated
C16_Witness ==
    /\ ppc = "returned" /\ pout.sent
    /\ pin.env.send \in TransportErrors
    /\ pin.stats.total_requests = 3
    /\ pout.stats.total_requests = 4
    /\ pout.result.status = "Error"

\* the branch of the classifier a returned call went through, for the
\* branches whose confidence constants C18 orders
Branch ==
    IF ppc # "returned" THEN "none"
    ELSE IF ~pout.sent THEN "regex_rejection"
    ELSE IF pin.env.send # "ok" \/ ~NotRateLimited \/ pout.result.error
    THEN "none"
    ELSE CASE pin.data.error_type = "status_code" ->
                IF is_success(pin.env.response.status) THEN "status_success"
                ELSE IF pin.env.response.status = 404 THEN "status_404"
                ELSE "status_other"
           [] pin.data.error_type = "message" ->
                IF pout.result.status = "Confirmed" THEN "message_keywords"
                ELSE IF pout.result.status = "Likely"
                     THEN "message_no_keywords"
                     ELSE "message_marker"
           [] pin.data.error_type = "response_url" ->
                IF pout.result.exist THEN "url_match" ELSE "url_mismatch"
           [] OTHER -> "none"

\* C18: the confidences the classifier assigns are ordered: status_code
\* other-status < message without keywords < status_code success <=
\* message with keywords < response_url match < regex rejection.
C18_ConfidenceOrdering ==
    LET c == pout.result.confidence
    IN  /\ Branch = "status_other"        => c = 60 /\ c < 75
        /\ Branch = "message_no_keywords" => c = 75 /\ 60 < c /\ c < 85
        /\ Branch = "status_success"      => c = 85 /\ 75 < c
        /\ Branch = "message_keywords"    => 85 <= c /\ c < 90
        /\ Branch = "url_match"           => c = 90 /\ c < 95
        /\ Branch = "regex_rejection"     => c = 95

\* a message body with two keywords, confirmed by the heuristic
C18_Witness ==
    /\ Branch = "message_keywords"
    /\ pin.env.response.body = {"Profile", "followers"}
    /\ pout.result.confidence = 85

\* C19: every returned outcome holds the resolved public URL in url and
\* the probe URL that was requested in url_probe.
C19_OutcomeUrls ==
    ppc = "returned"
    => /\ pout.result.url = ResolvedUrl
       /\ pout.sent => pout.result.url_probe = pout.requested

\* the same call met by the same response without the edge-proxy signature
WithoutSignature ==
    check_username_intelligent(pin.stats, pin.username, SiteName, pin.data,
        pin.use_tor, pin.tor_client, pin.strategy,
        [pin.env EXCEPT !.response.server = "nginx",
                        !.response.cf_ray = FALSE])

\* the response carries the edge-proxy signature
HasSignature ==
    \/ ToLower(pin.env.response.server) = "cloudflare"
    \/ pin.env.response.cf_ray

\* C20: for a received response the edge-proxy signature adds exactly one
\* to cloudflare_detected and changes nothing else: the outcome and the
\* other statistics are those of the same response without the signature,
\* and a 429/503 with the signature counts in blocked_count as well.
C20_SignatureOnlyCounts ==
    Received
    => /\ pout.result = WithoutSignature.result
       /\ pout.stats =
            [WithoutSignature.stats EXCEPT !.cloudflare_detected =
                 IF HasSignature THEN @ + 1 ELSE @]
       /\ WithoutSignature.stats.cloudflare_detected
            = pin.stats.cloudflare_detected
       /\ (HasSignature /\ ~NotRateLimited)
            => /\ pout.stats.blocked_count = pin.stats.blocked_count + 1
               /\ pout.stats.cloudflare_detected
                    = pin.stats.cloudflare_detected + 1

\* a 429 that carries both the server token and the cf-ray header
C20_Witness ==
    /\ Received
    /\ pin.env.response.status = 429
    /\ pin.env.response.server = "Cloudflare"
    /\ pin.env.response.cf_ray
    /\ pout.stats.cloudflare_detected = pin.stats.cloudflare_detected + 1
    /\ pout.stats.blocked_count = pin.stats.blocked_count + 1

----------------------------------------------------------------------------
(* Unsupported detection methods under check_with_adaptive_strategy        *)

\* attempt k named the unsupported method in its Error
NamesMethod(k) ==
    /\ attempts[k].result.status = "Error"
    /\ attempts[k].result.error
    /\ attempts[k].result.error_msg
         = <<"Unsupported error type: ", data.error_type>>

\* attempt k sent its request and received a response that was not 429/503
GotResponse(k) ==
    /\ attempts[k].sent
    /\ attempts[k].result.status # "Blocked"
    /\ attempts[k].result.error_msg
         \notin {<<e>> : e \in TransportErrors}

\* C17: on a site whose detection method is none of status_code, message,
\* response_url, every attempt that receives a response other than 429/503
\* yields Error naming the method, and when all attempts do, the call
\* returns after exactly max_retries + 1 attempts, each of which sent a
\* request, with that Error.
C17_UnsupportedRetried ==
    data.error_type \notin {"status_code", "message", "response_url"}
    => /\ \A k \in DOMAIN attempts : GotResponse(k) => NamesMethod(k)
       /\ (rpc = "returned" /\ \A k \in DOMAIN attempts : GotResponse(k))
            => /\ Len(attempts) = max_retries + 1
               /\ \A k \in DOMAIN attempts : attempts[k].sent
               /\ NamesMethod(Len(attempts))
               /\ result = attempts[Len(attempts)].result

\* three attempts on an unsupported method with max_retries = 2
C17_Witness ==
    /\ data.error_type = "xpath"
    /\ max_retries = 2
    /\ rpc = "returned"
    /\ Len(attempts) = 3
    /\ \A k \in DOMAIN attempts : GotResponse(k) /\ NamesMethod(k)

----------------------------------------------------------------------------
(* Further properties of one call of check_username_intelligent            *)

\* the trackers of a ScraperStats
Trackers(st) == <<st.fastest_site, st.slowest_site>>

\* C21: an attempt that ends in Confirmed, Likely, NotFound (by a
\* detection method) or Blocked records its duration once in the
\* fastest/slowest trackers under the site's name; the regex
\* short-circuit records nothing.
C21_DurationRecorded ==
    ppc = "returned"
    => IF ~pout.sent
       THEN Trackers(pout.stats) = Trackers(pin.stats)
       ELSE pout.result.status
                \in {"Confirmed", "Likely", "NotFound", "Blocked"}
            => Trackers(pout.stats)
                 = Trackers(update_timing(pin.stats, SiteName,
                                          pin.env.elapsed))

\* C23: the URL an attempt requests is the probe template with the
\* username in place of the placeholder when the site has a probe
\* template, and the main template with the username in place of the
\* placeholder otherwise.
C23_RequestedUrl ==
    (ppc = "returned" /\ pout.sent)
    => LET template == IF pin.data.url_probe = <<>> THEN pin.data.url
                       ELSE pin.data.url_probe
       IN  /\ Len(pout.requested) = Len(template)
           /\ \A i \in DOMAIN template :
                pout.requested[i] = IF template[i] = "{}" THEN pin.username
                                    ELSE template[i]

\* a site with a probe template, probed on it
C23_Witness ==
    /\ ppc = "returned" /\ pout.sent
    /\ pin.data.url_probe = ProbeTemplate
    /\ pin.username = "al1ce"
    /\ pout.requested = <<"https://api.site/", "al1ce">>

\* C24: the request goes through the anonymizing client exactly when
\* anonymization is requested and the anonymizing client is configured,
\* and through the direct client otherwise, whatever the strategy and site.
C24_ClientSelection ==
    (ppc = "returned" /\ pout.sent)
    => /\ (pin.use_tor /\ pin.tor_client) => pout.client = "tor_client"
       /\ ~(pin.use_tor /\ pin.tor_client) => pout.client = "client"

\* anonymization requested of a scraper without an anonymizing client,
\* on a retry strategy
C24_Witness ==
    /\ ppc = "returned" /\ pout.sent
    /\ pin.use_tor /\ ~pin.tor_client
    /\ pin.strategy = "AntiBlock"
    /\ pout.client = "client"

\* the same call under another strategy
UnderStrategy(strategy) ==
    check_username_intelligent(pin.stats, pin.username, SiteName, pin.data,
        pin.use_tor, pin.tor_client, strategy, pin.env)

\* C25: the strategy changes only the User-Agent of the request: none is
\* attached under Fast, one entry of the rotation set under Stealth and
\* AntiBlock alike; the outcome, the statistics, the URL requested and the
\* client are the same under the three strategies.
C25_StrategyOnlyUserAgent ==
    (ppc = "returned" /\ pout.sent)
    => /\ pin.strategy = "Fast" => pout.user_agent = ""
       /\ pin.strategy \in {"Stealth", "AntiBlock"}
            => /\ \E i \in DOMAIN USER_AGENTS :
                    pout.user_agent = USER_AGENTS[i]
               /\ pout.user_agent = USER_AGENTS[pin.ua_draw]
       /\ \A strategy \in Strategies :
            /\ pout.result = UnderStrategy(strategy).result
            /\ pout.stats = UnderStrategy(strategy).stats
            /\ pout.requested = UnderStrategy(strategy).requested
            /\ pout.client = UnderStrategy(strategy).client

\* a Stealth attempt that drew the last entry of the rotation set
C25_Witness ==
    /\ ppc = "returned" /\ pout.sent
    /\ pin.strategy = "Stealth"
    /\ pout.user_agent = "ua-linux"
    /\ pout.result.exist

\* C29: in every returned outcome error is true exactly when the status
\* is Blocked or Error; with error the outcome has exist = false,
\* confidence 0 and a non-empty message; without error the message is
\* empty and the confidence is greater than 0.
C29_ErrorFlagConsistent ==
    ppc = "returned"
    => /\ pout.result.error <=> pout.result.status \in {"Blocked", "Error"}
       /\ pout.result.error
            => /\ ~pout.result.exist
               /\ pout.result.confidence = 0
               /\ pout.result.error_msg # <<>>
               /\ \A i \in DOMAIN pout.result.error_msg :
                    pout.result.error_msg[i] # ""
       /\ ~pout.result.error
            => /\ pout.result.error_msg = <<>>
               /\ F32Gt(pout.result.confidence, 0)

\* an unreadable body on a message site: an Error with its message
C29_Witness ==
    /\ ppc = "returned"
    /\ pin.data.error_type = "message"
    /\ pin.env.send = "ok"
    /\ pin.env.response.body = Unreadable
    /\ pout.result.error
    /\ pout.result.status = "Error"

----------------------------------------------------------------------------
(* Further properties of check_with_adaptive_strategy                      *)

\* attempt k could not read the body of its response
DecodeFailed(k) ==
    attempts[k].result.error_msg = <<"error decoding response body">>

\* C22: on a message site an attempt that fails to read the response
\* body yields Error with error = true; while retries remain it is
\* followed by an attempt with the escalated strategy, and once they are
\* used up the call returns that Error.
C22_DecodeErrorRetried ==
    \A k \in DOMAIN attempts :
        DecodeFailed(k)
        => /\ data.error_type = "message"
           /\ attempts[k].result.status = "Error"
           /\ attempts[k].result.error
           /\ k < Len(attempts)
                => /\ k <= max_retries
                   /\ attempts[k + 1].strategy =
                        IF k = 1 THEN "Stealth" ELSE "AntiBlock"
           /\ k = Len(attempts)
                => IF k <= max_retries
                   THEN rpc \in {"sleep", "attempt"} /\ retries = k
                   ELSE rpc = "returned" /\ result = attempts[k].result

\* three unreadable bodies in a row with max_retries = 2
C22_Witness ==
    /\ max_retries = 2
    /\ rpc = "returned"
    /\ Len(attempts) = 3
    /\ \A k \in DOMAIN attempts : DecodeFailed(k)
    /\ attempts[2].strategy = "Stealth"
    /\ attempts[3].strategy = "AntiBlock"

\* the statuses the classifier produces
ClassifierStatuses == {"Confirmed", "Likely", "NotFound", "Blocked", "Error"}

\* C28: in every outcome an attempt returns, and in the outcome the
\* retry controller returns, exist is true exactly when is_found holds of
\* the status, and the status is one of Confirmed, Likely, NotFound,
\* Blocked, Error.
C28_ExistIffFound ==
    /\ \A k \in DOMAIN attempts :
         /\ attempts[k].result.exist <=> is_found(attempts[k].result.status)
         /\ attempts[k].result.status \in ClassifierStatuses
    /\ rpc = "returned"
         => /\ result.exist <=> is_found(result.status)
            /\ result.status \in ClassifierStatuses

\* a call that returns a Likely match after an Error
C28_Witness ==
    /\ rpc = "returned"
    /\ Len(attempts) = 2
    /\ attempts[1].result.status = "Error"
    /\ result.status = "Likely"
    /\ result.exist

----------------------------------------------------------------------------
(* Further properties of the shared statistics                             *)

\* the durations update_timing has been called with so far
Recorded == {plan[t].elapsed : t \in {u \in Threads : plan[u].elapsed # 0}}

StatsInRange ==
    /\ shared.blocked_count <= shared.total_requests
    /\ shared.cloudflare_detected <= shared.total_requests
    /\ shared.fastest_site = None <=> shared.slowest_site = None
    /\ shared.fastest_site = None <=> Recorded = {}
    /\ shared.fastest_site # None
         => /\ shared.fastest_site[2] \in Recorded
            /\ shared.slowest_site[2] \in Recorded
            /\ \A d \in Recorded : /\ shared.fastest_site[2] <= d
                                   /\ d <= shared.slowest_site[2]
            /\ shared.fastest_site[2] <= shared.slowest_site[2]

CountersGrow ==
    /\ shared'.total_requests >= shared.total_requests
    /\ shared'.blocked_count >= shared.blocked_count
    /\ shared'.cloudflare_detected >= shared.cloudflare_detected

\* C30: in every state of concurrent calls blocked_count and
\* cloudflare_detected are at most total_requests, no counter ever
\* decreases, fastest_site and slowest_site are both unset or both set,
\* and when set they hold the minimum and the maximum of the durations
\* recorded so far.
C30_StatsConsistent == [](StatsInRange) /\ [][CountersGrow]_vars

\* both calls recorded a duration, the durations differ, and one
\* response was counted as blocked
C30_Witness ==
    /\ \A t \in Threads : apc[t] = "done" /\ plan[t].elapsed # 0
    /\ shared.fastest_site[2] < shared.slowest_site[2]
    /\ shared.total_requests = 2

----------------------------------------------------------------------------
(* Further properties of scan_username                                     *)

\* the tasks that have passed the fetch_add of line 130 with a match
Counted ==
    {t \in ScanSites : /\ tpc[t] \in {"print", "post", "done", "panicked"}
                       /\ tresult[t].exist}

\* the tasks whose probe has returned
ProbeReturned ==
    {t \in ScanSites : \/ tpc[t] \in {"report", "print", "post", "done"}
                       \/ tpc[t] = "panicked" /\ tresult[t] # NoVerdict}

\* the summary comes after every task has finished and reports the
\* number of tasks whose final outcome has exist = true
SummaryAfterJoin ==
    /\ mpc \in {"summary", "done"} => Finished = ScanSites
    /\ reported # NotYet
         => /\ mpc = "done"
            /\ reported = Cardinality({t \in ScanSites : tresult[t].exist})

\* C26 as stated: the summary comes after every task has finished, it
\* reports the number of tasks whose final outcome has exist = true, and
\* in every state found count <= number of finished tasks <= number of
\* sites.
C26_CountWithinFinished ==
    /\ SummaryAfterJoin
    /\ found_count <= Cardinality(Finished)
    /\ Cardinality(Finished) <= NumScanSites

\* C26: the summary comes after every task has finished and reports the
\* number of tasks whose final outcome has exist = true; in every state
\* the found count is the number of tasks that have passed the fetch_add
\* with a match, which is at most the number of tasks whose probe has
\* returned, which is at most the number of sites.  A task is counted
\* before it finishes.
C26_SummaryCountsMatches ==
    /\ SummaryAfterJoin
    /\ found_count = Cardinality(Counted)
    /\ Counted \subseteq ProbeReturned
    /\ Cardinality(ProbeReturned) <= NumScanSites
    /\ Cardinality(Finished) <= NumScanSites

\* the summary reports two matches: one of a task that completed, one of
\* a task that panicked after it was counted; a third task completed
\* without a match
C26_Witness ==
    /\ mpc = "done"
    /\ reported = 2
    /\ \E t \in ScanSites : tpc[t] = "panicked" /\ tresult[t].exist
    /\ \E t \in ScanSites : tpc[t] = "done" /\ tresult[t].exist
    /\ \E t \in ScanSites : tpc[t] = "done" /\ ~tresult[t].exist

\* what the post-match actions of a task left behind
PostMatchOutcome ==
    \A t \in ScanSites :
        /\ tpost[t] # NoPost => tpc[t] = "done" /\ t \in Counted
        /\ tpost[t].dl # Off
             => /\ tpost[t].ran <=> ToLower(SiteNames[t]) = "instagram"
                /\ ~tpost[t].ran => tpost[t].dl = "Ok"
        /\ tpost[t].warnings =
             Cardinality({a \in {"shot", "dl"} : tpost[t][a] = "Err"})

\* the step that runs the post-match actions ends the task and leaves
\* its verdict and the found count alone
PostMatchStep ==
    \A t \in ScanSites :
        (tpc[t] = "post" /\ tpc'[t] # "post" /\ tpc'[t] # "panicked")
        => /\ tpc'[t] = "done"
           /\ tresult' = tresult
           /\ found_count' = found_count

\* C27: download for a site name with no registered downloader runs
\* nothing and returns Ok; the lookup ignores the case of the name; an Err
\* of a registered downloader or of take_screenshot after a match is one
\* warning each, the task still completes, and its verdict and the found
\* count are unchanged.
C27_PostMatchIsMissSafe ==
    /\ [](PostMatchOutcome /\ mpc # "crashed")
    /\ [][PostMatchStep]_vars

\* the screenshot and the downloader of "Instagram" both failed, the
\* download for "GitHub" was a miss, and the summary reports both matches
C27_Witness ==
    /\ mpc = "done"
    /\ reported = 2
    /\ \E t \in ScanSites :
         /\ SiteNames[t] = "Instagram"
         /\ tpost[t].shot = "Err" /\ tpost[t].dl = "Err" /\ tpost[t].ran
         /\ tpost[t].warnings = 2
    /\ \E t \in ScanSites :
         /\ SiteNames[t] = "GitHub"
         /\ tpost[t].dl = "Ok" /\ ~tpost[t].ran

----------------------------------------------------------------------------
(* main.rs, scraper.rs: one invocation.  main scans the usernames in turn  *)
(* (lines 55-60); the site tasks of the current scan are counted by their  *)
(* position: waiting for a permit, awaiting the network, waiting for the   *)
(* statistics mutex, inside one of its critical sections, in a retry       *)
(* delay, reporting.  The tasks run the same code, so the number of tasks  *)
(* at each position is all the model keeps of them.                        *)

\* the positions of attempt number retries + 1 of the retried probe
SendPos  == <<"send0", "send1", "send2">>     \* scraper.rs:187 send().await
LockPos  == <<"lock0", "lock1", "lock2">>     \* 190, 196: stats.lock()
StatsPos == <<"stats0", "stats1", "stats2">>  \* 190, 196-207: guard alive
SleepPos == <<"sleep1", "sleep2">>            \* 295: sleep(..).await

Retries == 0..ScanMaxRetries

\* the positions at which a task owns the statistics mutex
GuardPositions == {StatsPos[r + 1] : r \in Retries} \cup {"timing"}

\* the positions at which a task waits for the statistics mutex
LockWaitPositions == {LockPos[r + 1] : r \in Retries} \cup {"timing_lock"}

\* the positions at which a task awaits the network or a delay
AwaitPositions ==
    {SendPos[r + 1] : r \in Retries} \cup {SleepPos[r] : r \in 1..ScanMaxRetries}
    \cup {"report"}

\* the positions at which a task holds a permit of the semaphore
PermitPositions == GuardPositions \cup LockWaitPositions \cup AwaitPositions

Positions == {"unspawned", "waiting", "ended"} \cup PermitPositions

\* the number of tasks at the three positions of a table
Sum3(q) == tasks_at[q[1]] + tasks_at[q[2]] + tasks_at[q[3]]

\* the tasks inside a critical section, waiting for the mutex, awaiting
Guards == Sum3(StatsPos) + tasks_at["timing"]
LockWaiters == Sum3(LockPos) + tasks_at["timing_lock"]
Awaiting ==
    Sum3(SendPos) + tasks_at["sleep1"] + tasks_at["sleep2"]
    + tasks_at["report"]

\* the tasks that hold a permit, and those that have not ended
PermitsOut == Guards + LockWaiters + Awaiting
LiveTasks == PermitsOut + tasks_at["waiting"] + tasks_at["unspawned"]

NoTasks == [p \in Positions |-> 0]

\* one task moves from one position to another
Move(from, to) ==
    /\ tasks_at[from] > 0
    /\ tasks_at' = [p \in Positions |->
                      tasks_at[p] - (IF p = from THEN 1 ELSE 0)
                                  + (IF p = to THEN 1 ELSE 0)]

\* mutant: the guard outlives the statement or block that took it
drop_guard_leaked(held) == held

\* scraper.rs:190, 205-207, 258: the MutexGuard is dropped at the end of
\* its statement or block, or by the return inside the block
drop_guard(held) == FALSE

\* mutant: the JoinHandles are not awaited
joined_detached(ended, n) == TRUE

\* main.rs:160-162: the join loop has awaited every JoinHandle
joined(ended, n) == ended = n

\* what an attempt can return, as the retry loop reads it (scraper.rs:284)
AttemptReturns ==
    {[error |-> FALSE, status |-> "Confirmed"],
     [error |-> FALSE, status |-> "NotFound"],
     [error |-> TRUE, status |-> "Blocked"],
     [error |-> TRUE, status |-> "Error"]}

\* where a task goes when the critical section of attempt retries + 1
\* ends: Blocked returns from inside it (205), a send error returns
\* after it (190-191), otherwise the classification follows (209-252)
\* and either returns an Error or goes on to update_timing (254-258);
\* a returned result ends the retried probe or starts the delay (284-295)
AfterStats(r) ==
    {IF ~res.error THEN "timing_lock"
     ELSE IF returns_result(res, r, ScanMaxRetries) THEN "report"
     ELSE SleepPos[r + 1] : res \in AttemptReturns}

\* main.rs:55-56 for the one username given: nothing is set up yet;
\* filter_sites leaves every site or, with a --site no site matches, none
InitRun ==
    /\ users = 1
    /\ nsites \in {0, NumPoolSites}
    /\ user = 1
    /\ scan = "begin"
    /\ workers = 0
    /\ sem = 0
    /\ guard = FALSE
    /\ tasks_at = NoTasks
    /\ stale = 0

\* main.rs:63-99: filter_sites, Scraper::new, Chrome setup, the registry
\* and the semaphore; an Err of the setup ends main (line 57, `?`), and
\* with no site left scan_username returns Ok at once (70-73).  The scan
\* is one with screenshots, whose eight permits nine sites exhaust.
ScanBegin ==
    /\ scan = "begin"
    /\ \/ /\ scan' = "failed"
          /\ UNCHANGED <<workers, sem, tasks_at, stale>>
       \/ /\ nsites = 0
          /\ scan' = "returned"
          /\ UNCHANGED <<workers, sem, tasks_at, stale>>
       \/ /\ nsites > 0
          /\ workers' = max_workers(TRUE)
          /\ sem' = max_workers(TRUE)
          /\ stale' = stale + LiveTasks
          /\ tasks_at' = [NoTasks EXCEPT !["unspawned"] = nsites]
          /\ scan' = "running"
    /\ UNCHANGED <<users, nsites, user, guard>>
    /\ UNCHANGED notRun

\* main.rs:108-157: the loop of tokio::spawn, which awaits nothing,
\* spawns the task of every site
RunSpawn ==
    /\ scan = "running"
    /\ tasks_at["unspawned"] > 0
    /\ tasks_at' = [tasks_at EXCEPT !["unspawned"] = 0,
                                    !["waiting"] = tasks_at["unspawned"]]
    /\ UNCHANGED <<users, nsites, user, scan, workers, sem, guard, stale>>
    /\ UNCHANGED notRun

\* main.rs:121: semaphore.acquire().await; then the regex check of the
\* first attempt (scraper.rs:165-173), which returns NotFound without a
\* request or goes on to send
RunAcquire ==
    /\ permit_available(sem)
    /\ sem' = sem - 1
    /\ \E to \in {SendPos[1], "report"} : Move("waiting", to)
    /\ UNCHANGED <<users, nsites, user, scan, workers, guard, stale>>
    /\ UNCHANGED notRun

\* scraper.rs:187-193: request.send().await returns, Ok or Err
RunSendReturns(r) ==
    /\ Move(SendPos[r + 1], LockPos[r + 1])
    /\ UNCHANGED <<users, nsites, user, scan, workers, sem, guard, stale>>
    /\ UNCHANGED notRun

\* scraper.rs:190, 196: self.stats.lock().unwrap()
RunLock(r) ==
    /\ ~guard
    /\ guard' = TRUE
    /\ Move(LockPos[r + 1], StatsPos[r + 1])
    /\ UNCHANGED <<users, nsites, user, scan, workers, sem, stale>>
    /\ UNCHANGED notRun

\* scraper.rs:190-252: the counters are updated and the guard is dropped
RunStats(r) ==
    /\ guard' = drop_guard(guard)
    /\ \E to \in AfterStats(r) : Move(StatsPos[r + 1], to)
    /\ UNCHANGED <<users, nsites, user, scan, workers, sem, stale>>
    /\ UNCHANGED notRun

\* scraper.rs:295, 280-281: the delay ends and the next attempt sends
RunWake(r) ==
    /\ Move(SleepPos[r], SendPos[r + 1])
    /\ UNCHANGED <<users, nsites, user, scan, workers, sem, guard, stale>>
    /\ UNCHANGED notRun

\* scraper.rs:255-257: self.stats.lock().unwrap()
RunTimingLock ==
    /\ ~guard
    /\ guard' = TRUE
    /\ Move("timing_lock", "timing")
    /\ UNCHANGED <<users, nsites, user, scan, workers, sem, stale>>
    /\ UNCHANGED notRun

\* scraper.rs:258-264: update_timing, the guard is dropped, the result
\* is returned
RunTiming ==
    /\ guard' = drop_guard(guard)
    /\ Move("timing", "report")
    /\ UNCHANGED <<users, nsites, user, scan, workers, sem, stale>>
    /\ UNCHANGED notRun

\* main.rs:129-154: the result is counted and printed, the post-match
\* actions run, the task ends and _permit is dropped
RunFinish ==
    /\ sem' = release_permit(sem)
    /\ Move("report", "ended")
    /\ UNCHANGED <<users, nsites, user, scan, workers, guard, stale>>
    /\ UNCHANGED notRun

\* a task panics where it awaits (the transport, a collaborator, a
\* println!): unwinding drops _permit; no such point lies inside a
\* critical section of the statistics mutex
RunPanic ==
    /\ sem' = release_permit(sem)
    /\ \E p \in AwaitPositions : Move(p, "ended")
    /\ UNCHANGED <<users, nsites, user, scan, workers, guard, stale>>
    /\ UNCHANGED notRun

\* main.rs:160-169: every JoinHandle has been awaited; the summary is
\* printed and scan_username returns Ok
RunSummary ==
    /\ scan = "running"
    /\ tasks_at["unspawned"] = 0
    /\ joined(tasks_at["ended"], nsites)
    /\ scan' = "summarised"
    /\ UNCHANGED <<users, nsites, user, workers, sem, guard, tasks_at, stale>>
    /\ UNCHANGED notRun

\* main.rs:55-56: the loop goes on to the next username
NextUser ==
    /\ scan \in {"summarised", "returned"}
    /\ user < users
    /\ user' = user + 1
    /\ scan' = "begin"
    /\ UNCHANGED <<users, nsites, workers, sem, guard, tasks_at, stale>>
    /\ UNCHANGED notRun

\* a step of a site task, short of a panic
RunTaskStep ==
    \/ RunAcquire
    \/ \E r \in Retries : RunSendReturns(r) \/ RunLock(r) \/ RunStats(r)
    \/ \E r \in 1..ScanMaxRetries : RunWake(r)
    \/ RunTimingLock \/ RunTiming \/ RunFinish

NextRun ==
    \/ ScanBegin \/ RunSpawn \/ RunTaskStep \/ RunPanic \/ RunSummary

StartRun ==
    InitRun /\ IdleRetryPart /\ IdlePool /\ IdleLock /\ IdleTiming
    /\ IdleResult /\ IdleProbe

SpecRun == StartRun /\ [][NextRun]_vars

\* tokio runs a task that can make progress, every request returns
\* (the clients have timeouts), every delay ends; scan_username keeps
\* running; nothing obliges a task to panic
FairRun ==
    /\ SpecRun
    /\ WF_vars(ScanBegin) /\ WF_vars(RunSpawn) /\ WF_vars(RunSummary)
    /\ WF_vars(RunTaskStep)

\* some task or scan_username itself can take a step
CanProgress ==
    \/ scan = "running" /\ tasks_at["unspawned"] > 0
    \/ tasks_at["waiting"] > 0 /\ permit_available(sem)
    \/ Awaiting > 0
    \/ Guards > 0
    \/ LockWaiters > 0 /\ ~guard

\* the mutex is owned by exactly the one task inside a critical section,
\* which waits for nothing; the permits out are those of the tasks
\* between acquire and the end of the task
LockAndPermitDiscipline ==
    /\ Guards = (IF guard THEN 1 ELSE 0)
    /\ GuardPositions \cap (AwaitPositions \cup LockWaitPositions
                              \cup {"waiting"}) = {}
    /\ scan \in {"running", "summarised"}
         => /\ PermitsOut + sem = workers
            /\ LiveTasks + tasks_at["ended"] = nsites
    /\ LiveTasks > 0 => CanProgress

\* a permit is taken only by a task that waits for one, one at a time
OnePermitEach ==
    sem' < sem => /\ sem' = sem - 1
                  /\ tasks_at'["waiting"] = tasks_at["waiting"] - 1
                  /\ PermitsOut' = PermitsOut + 1

\* the scan is over: no task is left, the mutex is free and every permit
\* is back
RunQuiet ==
    /\ scan \in {"summarised", "returned", "failed"}
    /\ scan = "summarised" => /\ tasks_at["ended"] = nsites
                              /\ sem = workers
    /\ ~guard

\* C31: no deadlock is reachable.  The statistics mutex is owned only
\* inside its critical sections, never by a task that waits for the
\* network, a delay, the mutex or a permit; a permit is requested only by
\* a task that holds none; while a task is left some step is possible;
\* and under fair scheduling every task that waits for the mutex or for a
\* permit gets it: the scan ends with no task left, the mutex free and all
\* permits back.
C31_NoDeadlock ==
    /\ [](LockAndPermitDiscipline)
    /\ [][OnePermitEach]_vars
    /\ <>[](RunQuiet)

\* every permit is out while a task waits for one; the mutex is owned
\* while another task waits for it, a third awaits the network and a
\* fourth is in a retry delay
C31_Witness ==
    /\ sem = 0
    /\ tasks_at["waiting"] > 0
    /\ guard
    /\ LockWaiters > 0
    /\ tasks_at["send0"] > 0
    /\ tasks_at["sleep1"] > 0

----------------------------------------------------------------------------
(* main.rs:55-60: an invocation with several usernames                     *)

MaxUsers == 2

\* the usernames given on the command line, none scanned yet
InitInvocation ==
    /\ users = MaxUsers
    /\ nsites \in {0, NumPoolSites}
    /\ user = 1
    /\ scan = "begin"
    /\ workers = 0
    /\ sem = 0
    /\ guard = FALSE
    /\ tasks_at = NoTasks
    /\ stale = 0

NextInvocation == NextRun \/ NextUser

StartInvocation ==
    InitInvocation /\ IdleRetryPart /\ IdlePool /\ IdleLock /\ IdleTiming
    /\ IdleResult /\ IdleProbe

SpecInvocation == StartInvocation /\ [][NextInvocation]_vars

\* no task of an earlier scan is alive when a scan begins or later, and
\* the tasks that hold a permit are at most the worker budget
OneScanAtATime ==
    /\ stale = 0
    /\ scan = "begin" => LiveTasks = 0
    /\ PermitsOut <= max_workers(TRUE)
    /\ scan \in {"running", "summarised"} => PermitsOut + sem = workers

\* main goes on to the next username only from the end of a scan whose
\* tasks have all ended and whose summary is out (or that had no site to
\* probe), and a scan that dispatches tasks starts a semaphore of its own
\* with every permit free
UsersInTurn ==
    /\ user' # user
         => /\ user' = user + 1
            /\ LiveTasks = 0
            /\ scan = "summarised" \/ nsites = 0
            /\ scan = "summarised" => tasks_at["ended"] = nsites
    /\ (scan = "begin" /\ scan' = "running")
         => /\ sem' = max_workers(TRUE)
            /\ workers' = sem'
            /\ PermitsOut' = 0
    /\ (scan # "running" /\ scan' # "running") => tasks_at' = tasks_at

\* C32: the usernames are scanned one after another: no task of username
\* k + 1 is dispatched before every site task of username k has ended and
\* its summary is out, each scan has a semaphore of its own, and the
\* number of tasks that hold a permit is at most the worker budget
\* throughout the invocation.
C32_UsersScannedInTurn ==
    /\ [](OneScanAtATime)
    /\ [][UsersInTurn]_vars

\* the scan of the second username has used up its own eight permits
\* while its ninth task waits
C32_Witness ==
    /\ user = 2
    /\ scan = "running"
    /\ sem = 0
    /\ tasks_at["waiting"] = 1
    /\ PermitsOut = max_workers(TRUE)

====
